---- MODULE Spec2Model ----
(***************************************************************************)
(* Model of the bullet journal's text record codec and mutation engine     *)
(* (src/src/main.rs).                                                      *)
(*                                                                         *)
(* A string is a sequence of one-character strings, so that the prefix     *)
(* stripping, whitespace splitting and joining of the codec are computed   *)
(* as the code computes them.  A day file is the sequence of its lines;    *)
(* the characters of the model contain no line terminator, so that         *)
(* write_file_lines followed by read_file_lines returns the lines written. *)
(* Option<T> is a sequence of length 0 (None) or 1 (Some).  Indices of     *)
(* lines are 1-based (line_index + 1 of the source).  A value the source   *)
(* binds with let and uses several times is the parameter of an operator   *)
(* here, named after what it continues with.                               *)
(***************************************************************************)
EXTENDS Integers, Sequences, FiniteSets, TLC

(***************************************************************************)
(* Bounds of the model.                                                    *)
(***************************************************************************)
\* The longest day file of an initial state, in lines
MaxLines == 3
\* The number of invocations of a behaviour of Spec
MaxSteps == 1
\* The number of invocations of a behaviour of SpecAdds
MaxAdds == 3
\* The longest day file of an initial state of SpecRace, in lines
MaxRaceLines == 2
\* The longest day file of an initial state of SpecAdds, in lines
MaxAddLines == 1
\* The most whole lines a failing write leaves in the file
MaxWritten == 0
\* The number of invocations of a behaviour of SpecNotify
MaxNotifySteps == 4

(***************************************************************************)
(* Strings.                                                                *)
(***************************************************************************)
None == <<>>
Some(v) == <<v>>

WS == {" ", "\t"}
Digits == <<"0", "1", "2", "3", "4", "5", "6", "7", "8", "9">>

IsDigit(c) == \E i \in 1..10 : Digits[i] = c
DigitVal(c) == (CHOOSE i \in 1..10 : Digits[i] = c) - 1

Drop(s, n) == SubSeq(s, n + 1, Len(s))
Take(s, n) == SubSeq(s, 1, n)

StartsWith(s, p) == Len(s) >= Len(p) /\ Take(s, Len(p)) = p

\* str::trim_start, str::trim_end, str::trim
RECURSIVE TrimStart(_)
TrimStart(s) == IF s # <<>> /\ s[1] \in WS THEN TrimStart(Tail(s)) ELSE s

RECURSIVE TrimEnd(_)
TrimEnd(s) ==
    IF s # <<>> /\ s[Len(s)] \in WS THEN TrimEnd(Take(s, Len(s) - 1)) ELSE s

Trim(s) == TrimEnd(TrimStart(s))

\* str::trim_start_matches(p): strips the prefix p as often as it repeats
RECURSIVE TrimStartMatches(_, _)
TrimStartMatches(s, p) ==
    IF p # <<>> /\ StartsWith(s, p) THEN TrimStartMatches(Drop(s, Len(p)), p) ELSE s

\* str::find(c): the 1-based index of the first c, 0 when there is none
Find(s, c) ==
    IF \E i \in 1..Len(s) : s[i] = c
    THEN CHOOSE i \in 1..Len(s) : s[i] = c /\ \A j \in 1..(i - 1) : s[j] # c
    ELSE 0

\* str::replace(from, to): every occurrence of from replaced by to
RECURSIVE ReplaceAll(_, _, _)
ReplaceAll(s, from, to) ==
    IF Len(s) < Len(from) \/ from = <<>> THEN s
    ELSE IF Take(s, Len(from)) = from THEN to \o ReplaceAll(Drop(s, Len(from)), from, to)
    ELSE <<s[1]>> \o ReplaceAll(Tail(s), from, to)

\* str::replacen(from, to, 1): the first occurrence of from replaced by to
Replacen1(s, from, to) ==
    LET Occ == {i \in 1..(Len(s) - Len(from) + 1) : SubSeq(s, i, i + Len(from) - 1) = from}
    IN IF Occ = {} THEN s
       ELSE LET i == CHOOSE k \in Occ : \A j \in Occ : k <= j
            IN Take(s, i - 1) \o to \o Drop(s, i + Len(from) - 1)

\* str::split_whitespace: the maximal runs of non-whitespace characters
RECURSIVE SplitWhitespace(_)
SplitWhitespace(s) ==
    LET t == TrimStart(s)
    IN IF t = <<>> THEN <<>>
       ELSE LET Stops == {i \in 1..Len(t) : t[i] \in WS}
                n == IF Stops = {} THEN Len(t)
                     ELSE (CHOOSE k \in Stops : \A j \in Stops : k <= j) - 1
            IN <<Take(t, n)>> \o SplitWhitespace(Drop(t, n))

\* [&str]::join(sep)
RECURSIVE Join(_, _)
Join(parts, sep) ==
    IF parts = <<>> THEN <<>>
    ELSE IF Len(parts) = 1 THEN parts[1]
    ELSE parts[1] \o sep \o Join(Tail(parts), sep)

\* The value of a non-empty run of decimal digits
RECURSIVE DecVal(_)
DecVal(s) == IF s = <<>> THEN 0 ELSE 10 * DecVal(Take(s, Len(s) - 1)) + DigitVal(s[Len(s)])

AllDigits(s) == \A i \in 1..Len(s) : IsDigit(s[i])

\* format!("{}", n) of an unsigned integer
RECURSIVE FormatU32(_)
FormatU32(n) == IF n < 10 THEN <<Digits[n + 1]>> ELSE FormatU32(n \div 10) \o <<Digits[(n % 10) + 1]>>

\* str::parse::<u32>: an optional '+', then one or more digits, at most
\* u32::MAX = 4294967295 (compared on the digits, leading zeros dropped)
RECURSIVE TrimZeros(_)
TrimZeros(s) == IF Len(s) > 1 /\ s[1] = "0" THEN TrimZeros(Tail(s)) ELSE s

FitsU32(d) ==
    \/ Len(d) <= 9
    \/ /\ Len(d) = 10
       /\ \/ DecVal(Take(d, 9)) < 429496729
          \/ DecVal(Take(d, 9)) = 429496729 /\ DigitVal(d[10]) <= 5

ParseU32(s) ==
    LET d == IF s # <<>> /\ s[1] = "+" THEN Tail(s) ELSE s
    IN IF d # <<>> /\ AllDigits(d) /\ FitsU32(TrimZeros(d))
       THEN Some(DecVal(TrimZeros(d))) ELSE None

\* NaiveTime::parse_from_str(s, "%H:%M"): one or two digits, ':', one or two
\* digits, nothing after; the time is kept as minutes since midnight
ParseTime(s) ==
    LET hl == IF Len(s) >= 2 /\ IsDigit(s[1]) /\ IsDigit(s[2]) THEN 2
              ELSE IF Len(s) >= 1 /\ IsDigit(s[1]) THEN 1 ELSE 0
        r  == Drop(s, hl)
        m  == IF r = <<>> THEN <<>> ELSE Tail(r)
    IN IF hl > 0 /\ r # <<>> /\ r[1] = ":" /\ Len(m) \in {1, 2} /\ AllDigits(m)
          /\ DecVal(Take(s, hl)) <= 23 /\ DecVal(m) <= 59
       THEN Some(60 * DecVal(Take(s, hl)) + DecVal(m)) ELSE None

\* NaiveTime::format("%H:%M")
FormatTime(t) ==
    <<Digits[((t \div 60) \div 10) + 1], Digits[((t \div 60) % 10) + 1], ":",
      Digits[((t % 60) \div 10) + 1], Digits[((t % 60) % 10) + 1]>>

(***************************************************************************)
(* The literals of the day file grammar.                                   *)
(***************************************************************************)
OpenMarker == <<"-", " ", "[", " ", "]", " ">>
DoneMarker == <<"-", " ", "[", "x", "]", " ">>
NotePrefix == <<" ", " ", "-", " ", "n", "o", "t", "e", ":", " ">>
MtgPrefix  == <<"[", "m", "t", "g", " ">>
PriHigh    == <<"(", "!", "!", "!", ")", " ">>
PriMed     == <<"(", "!", "!", ")", " ">>
PriLow     == <<"(", "!", ")", " ">>

\* The prefix add_bullet writes for a priority
PriorityPrefix(priority) ==
    IF priority = Some(3) THEN PriHigh
    ELSE IF priority = Some(2) THEN PriMed
    ELSE IF priority = Some(1) THEN PriLow
    ELSE <<>>

(***************************************************************************)
(* Decoding.                                                               *)
(***************************************************************************)
\* The tokens of parts that are tags (those starting with '#', without it
\* and when more than the '#'), and the tokens that are kept
RECURSIVE TagsOf(_)
TagsOf(parts) ==
    IF parts = <<>> THEN <<>>
    ELSE IF parts[1][1] = "#"
         THEN (IF Len(parts[1]) > 1 THEN <<Tail(parts[1])>> ELSE <<>>) \o TagsOf(Tail(parts))
         ELSE TagsOf(Tail(parts))

RECURSIVE KeptOf(_)
KeptOf(parts) ==
    IF parts = <<>> THEN <<>>
    ELSE IF parts[1][1] = "#" THEN KeptOf(Tail(parts))
         ELSE <<parts[1]>> \o KeptOf(Tail(parts))

PriorityOf(rest) ==
    IF StartsWith(rest, PriHigh) THEN Some(3)
    ELSE IF StartsWith(rest, PriMed) THEN Some(2)
    ELSE IF StartsWith(rest, PriLow) THEN Some(1)
    ELSE None

StripPriority(rest) == Drop(rest, Len(PriorityPrefix(PriorityOf(rest))))

TextAndTags(pr, parts) ==
    [text |-> Join(KeptOf(parts), <<" ">>), priority |-> pr, tags |-> TagsOf(parts)]

parse_text_meta_only(rest) ==
    TextAndTags(PriorityOf(rest), SplitWhitespace(StripPriority(rest)))

\* The bracket of a meeting, when rest starts with "[mtg " and a ']'
\* follows: what is inside it, and what is after it
BracketAt(body, close) ==
    IF close > 0 THEN Some([spec |-> Take(body, close - 1), after |-> Drop(body, close)])
    ELSE None

MeetingBracket(rest) ==
    IF StartsWith(rest, MtgPrefix)
    THEN BracketAt(Drop(rest, Len(MtgPrefix)), Find(Drop(rest, Len(MtgPrefix)), "]"))
    ELSE None

SpecTime(parts) == IF Len(parts) > 0 THEN ParseTime(parts[1]) ELSE None
SpecDuration(parts) == IF Len(parts) > 1 THEN ParseU32(parts[2]) ELSE None

WithMeeting(meta, mt, dur) ==
    [text |-> meta.text, priority |-> meta.priority, tags |-> meta.tags,
     meeting_time |-> mt, meeting_duration_min |-> dur]

WithSpec(meta, parts) == WithMeeting(meta, SpecTime(parts), SpecDuration(parts))

ParsedWith(rest, bracket) ==
    IF bracket = None THEN WithMeeting(parse_text_meta_only(rest), None, None)
    ELSE WithSpec(parse_text_meta_only(TrimStart(bracket[1].after)),
                  SplitWhitespace(bracket[1].spec))

parse_text_meeting_meta(rest) == ParsedWith(rest, MeetingBracket(rest))

\* The notes collected from line `from` on: the contents of the lines that
\* start with the note prefix, up to the first line that does not
RECURSIVE collect_notes(_, _)
collect_notes(lines, from) ==
    IF from <= Len(lines) /\ StartsWith(lines[from], NotePrefix)
    THEN <<Drop(lines[from], Len(NotePrefix))>> \o collect_notes(lines, from + 1)
    ELSE <<>>

IsOpenLine(line) == StartsWith(TrimStart(line), OpenMarker)
IsDoneLine(line) == StartsWith(TrimStart(line), DoneMarker)
IsEntryLine(line) == IsOpenLine(line) \/ IsDoneLine(line)

\* The 1-based indices of the entry lines
EntryIndices(lines) == {i \in 1..Len(lines) : IsEntryLine(lines[i])}

RECURSIVE SortedSeq(_)
SortedSeq(S) ==
    IF S = {} THEN <<>>
    ELSE <<CHOOSE x \in S : \A y \in S : x <= y>>
         \o SortedSeq(S \ {CHOOSE x \in S : \A y \in S : x <= y})

\* The Bullet pushed for the entry line at index i, the v-th entry line
BulletOf(lines, i, v, m) ==
    [line_index |-> i, visible_index |-> v, completed |-> IsDoneLine(lines[i]),
     text |-> m.text, priority |-> m.priority, tags |-> m.tags,
     notes |-> collect_notes(lines, i + 1),
     meeting_time |-> m.meeting_time, meeting_duration_min |-> m.meeting_duration_min]

BulletsAt(lines, idx) ==
    [v \in 1..Len(idx) |->
        BulletOf(lines, idx[v], v,
                 parse_text_meeting_meta(Drop(TrimStart(lines[idx[v]]), Len(OpenMarker))))]

parse_bullets(lines) == BulletsAt(lines, SortedSeq(EntryIndices(lines)))

(***************************************************************************)
(* Storage.  A day file either does not exist or holds a sequence of       *)
(* lines.  A fault names the storage operation of an invocation that       *)
(* fails: at is its ordinal among the reads and writes the invocation      *)
(* makes (0: none fails), and written says how a failing write fails:      *)
(* -1 when the file cannot be opened (it is left as it was), otherwise the *)
(* number of whole lines that reached the truncated file before the error. *)
(***************************************************************************)
Dates == {"d1", "d2"}

\* notified.meetings, the file of the notification keys, in the same
\* directory as the day files
StateFile == "notified"
Paths == Dates \cup {StateFile}

NoFile == [exists |-> FALSE, lines |-> <<>>]
FileOf(lines) == [exists |-> TRUE, lines |-> lines]

NoFault == [at |-> 0, written |-> -1]
Shift(fault, n) == [fault EXCEPT !.at = IF fault.at > n THEN fault.at - n ELSE 0]

read_file_lines(fs, date) == IF fs[date].exists THEN fs[date].lines ELSE <<>>

write_file_lines(fs, date, lines) == [fs EXCEPT ![date] = FileOf(lines)]

Min(a, b) == IF a <= b THEN a ELSE b

\* What a failing write leaves behind
failed_write(fs, date, lines, written) ==
    IF written < 0 \/ lines = <<>> THEN fs
    ELSE [fs EXCEPT ![date] = FileOf(Take(lines, Min(written, Len(lines) - 1)))]

Outcome(fs, result, failed) == [fs |-> fs, result |-> result, failed |-> failed]
Ok(fs) == Outcome(fs, "Ok", <<>>)
ReadFailed(fs, date) == Outcome(fs, "StorageUnavailable", <<"read", date>>)
WriteFailed(fs, date) == Outcome(fs, "StorageUnavailable", <<"write", date>>)

\* write_file_lines(..)?, the storage operation number `at` of the invocation
WriteOrFail(fs, date, lines, fault, at) ==
    IF fault.at = at THEN WriteFailed(failed_write(fs, date, lines, fault.written), date)
    ELSE Ok(write_file_lines(fs, date, lines))

(***************************************************************************)
(* The mutation engine.  Each operator is one invocation: from the files   *)
(* and the arguments to the files it leaves and its result.                *)
(***************************************************************************)
RECURSIVE TagSuffix(_)
TagSuffix(tags) ==
    IF tags = <<>> THEN <<>> ELSE <<" ", "#">> \o tags[1] \o TagSuffix(Tail(tags))

NoteLines(notes) == [i \in 1..Len(notes) |-> NotePrefix \o notes[i]]

\* The new entry and its notes put before the lines read
AddedLinesFirst(lines, text, priority, tags, notes) ==
    <<OpenMarker \o PriorityPrefix(priority) \o Trim(text) \o TagSuffix(tags)>>
        \o NoteLines(notes) \o lines

\* The lines add_bullet writes
AddedLines(lines, text, priority, tags, notes) ==
    lines \o <<OpenMarker \o PriorityPrefix(priority) \o Trim(text) \o TagSuffix(tags)>>
          \o NoteLines(notes)

add_bullet(fs, date, text, priority, tags, notes, fault) ==
    IF fault.at = 1 THEN ReadFailed(fs, date)
    ELSE WriteOrFail(fs, date,
                     AddedLines(read_file_lines(fs, date), text, priority, tags, notes),
                     fault, 2)

\* "[mtg HH:MM D] " of add_meeting
MeetingPrefix(time, duration_min) ==
    MtgPrefix \o FormatTime(time) \o <<" ">> \o FormatU32(duration_min) \o <<"]", " ">>

add_meeting(fs, date, time, duration_min, title, tags, notes, fault) ==
    add_bullet(fs, date, MeetingPrefix(time, duration_min) \o title, None, tags, notes, fault)

\* bullets.iter().find(|b| b.visible_index == id)
HasBullet(bullets, id) == \E v \in 1..Len(bullets) : bullets[v].visible_index = id
FindBullet(bullets, id) ==
    bullets[CHOOSE v \in 1..Len(bullets) :
              /\ bullets[v].visible_index = id
              /\ \A u \in 1..(v - 1) : bullets[u].visible_index # id]

\* Vec::remove(i), 1-based
Remove(lines, i) == Take(lines, i - 1) \o Drop(lines, i)

\* What migration adds to the destination: the raw line without its
\* leading open markers, parsed, and the meeting bracket put back
MigratedBracket(mt, dur) ==
    IF mt = None THEN <<>>
    ELSE MtgPrefix \o FormatTime(mt[1])
         \o (IF dur = None THEN <<>> ELSE <<" ">> \o FormatU32(dur[1]))
         \o <<"]", " ">>

MigratedFrom(m) ==
    [full_text |-> MigratedBracket(m.meeting_time, m.meeting_duration_min) \o m.text,
     priority |-> m.priority, tags |-> m.tags]

MigratedText(raw) ==
    MigratedFrom(parse_text_meeting_meta(TrimStartMatches(TrimStart(raw), OpenMarker)))

AddMigrated(fs, to, mt, fault) ==
    add_bullet(fs, to, mt.full_text, mt.priority, mt.tags, <<>>, fault)

\* The line written for the fields m of a decoded entry: the text that
\* migration builds of them, in the line add_bullet formats
EncodedLine(m) == AddedLines(<<>>, MigratedFrom(m).full_text, m.priority, m.tags, <<>>)[1]

\* The fields decoded of an entry line, as parse_bullets decodes them
DecodedLine(line) == parse_text_meeting_meta(Drop(TrimStart(line), Len(OpenMarker)))

\* The source written before the add to the destination is known to succeed
RemoveThenAdd(added, from, removed, fault, at) ==
    IF added.result # "Ok"
    THEN Outcome(write_file_lines(added.fs, from, removed), added.result, added.failed)
    ELSE WriteOrFail(added.fs, from, removed, fault, at)

\* add_bullet(..)?; from_lines.remove(..); write_file_lines(..)?
ThenRemove(added, from, removed, fault, at) ==
    IF added.result # "Ok" THEN added
    ELSE WriteOrFail(added.fs, from, removed, fault, at)

\* The move that takes the note block of the entry out of the source too
MigrateMoveWithNotes(fs, from, to, from_lines, line_index, fault) ==
    ThenRemove(AddMigrated(fs, to, MigratedText(from_lines[line_index]), Shift(fault, 1)),
               from,
               Take(from_lines, line_index - 1)
                   \o Drop(from_lines,
                           line_index + Len(collect_notes(from_lines, line_index + 1))),
               fault, 4)

\* The move of migrate_one, once the target is found to be open
MigrateMove(fs, from, to, from_lines, line_index, fault) ==
    ThenRemove(AddMigrated(fs, to, MigratedText(from_lines[line_index]), Shift(fault, 1)),
               from, Remove(from_lines, line_index), fault, 4)

\* The target moved whether it is completed or not
MigrateFoundUnchecked(fs, from, to, from_lines, bullets, id, fault) ==
    IF ~HasBullet(bullets, id) THEN Outcome(fs, "NotFound", <<>>)
    ELSE MigrateMove(fs, from, to, from_lines, FindBullet(bullets, id).line_index, fault)

MigrateFound(fs, from, to, from_lines, bullets, id, fault) ==
    IF ~HasBullet(bullets, id) THEN Outcome(fs, "NotFound", <<>>)
    ELSE IF FindBullet(bullets, id).completed THEN Outcome(fs, "AlreadyCompleted", <<>>)
    ELSE MigrateMove(fs, from, to, from_lines, FindBullet(bullets, id).line_index, fault)

MigrateRead(fs, from, to, from_lines, id, fault) ==
    MigrateFound(fs, from, to, from_lines, parse_bullets(from_lines), id, fault)

migrate_one(fs, from, to, id, fault) ==
    IF from = to THEN Outcome(fs, "InvalidOperation", <<>>)
    ELSE IF fault.at = 1 THEN ReadFailed(fs, from)
    ELSE MigrateRead(fs, from, to, read_file_lines(fs, from), id, fault)

\* The marker flipped either way
ReplacedToggle(raw) ==
    IF StartsWith(TrimStart(raw), OpenMarker) THEN Replacen1(raw, OpenMarker, DoneMarker)
    ELSE IF StartsWith(TrimStart(raw), DoneMarker) THEN Replacen1(raw, DoneMarker, OpenMarker)
    ELSE raw

\* The line mark_done puts in the place of the target's line
Replaced(raw) ==
    IF StartsWith(TrimStart(raw), OpenMarker) THEN Replacen1(raw, OpenMarker, DoneMarker)
    ELSE IF StartsWith(TrimStart(raw), DoneMarker) THEN raw
    ELSE raw

MarkFound(fs, date, lines, bullets, id, fault) ==
    IF ~HasBullet(bullets, id) THEN Outcome(fs, "NotFound", <<>>)
    ELSE WriteOrFail(fs, date,
                     [lines EXCEPT ![FindBullet(bullets, id).line_index] =
                                      Replaced(lines[FindBullet(bullets, id).line_index])],
                     fault, 2)

MarkRead(fs, date, lines, id, fault) ==
    MarkFound(fs, date, lines, parse_bullets(lines), id, fault)

mark_done(fs, date, id, fault) ==
    IF fault.at = 1 THEN ReadFailed(fs, date)
    ELSE MarkRead(fs, date, read_file_lines(fs, date), id, fault)

\* The lines delete_bullet removes: the entry line and, scanning down from
\* it, the lines that start with two spaces and do not start with "- "
\* after their leading whitespace; blank lines are passed over and the
\* scan stops at any other line
IsBlank(line) == Trim(line) = <<>>
IsIndentedText(line) ==
    StartsWith(line, <<" ", " ">>) /\ ~StartsWith(TrimStart(line), <<"-", " ">>)

RECURSIVE ScanRemoved(_, _)
ScanRemoved(lines, i) ==
    IF i > Len(lines) THEN {}
    ELSE IF IsBlank(lines[i]) THEN ScanRemoved(lines, i + 1)
    ELSE IF IsIndentedText(lines[i]) THEN {i} \cup ScanRemoved(lines, i + 1)
    ELSE {}

lines_to_remove(lines, line_index) == {line_index} \cup ScanRemoved(lines, line_index + 1)

\* The lines at the indices of keep, in order
Kept(lines, keep) == [i \in 1..Len(keep) |-> lines[keep[i]]]

\* The lines at the indices of S removed
RemoveAll(lines, S) == Kept(lines, SortedSeq((1..Len(lines)) \ S))

\* The lines read written back when the target is not found
DeleteFoundWriting(fs, date, lines, bullets, id, fault) ==
    IF ~HasBullet(bullets, id)
    THEN Outcome(write_file_lines(fs, date, lines), "NotFound", <<>>)
    ELSE WriteOrFail(fs, date,
                     RemoveAll(lines, lines_to_remove(lines, FindBullet(bullets, id).line_index)),
                     fault, 2)

DeleteFound(fs, date, lines, bullets, id, fault) ==
    IF ~HasBullet(bullets, id) THEN Outcome(fs, "NotFound", <<>>)
    ELSE WriteOrFail(fs, date,
                     RemoveAll(lines, lines_to_remove(lines, FindBullet(bullets, id).line_index)),
                     fault, 2)

DeleteRead(fs, date, lines, id, fault) ==
    DeleteFound(fs, date, lines, parse_bullets(lines), id, fault)

delete_bullet(fs, date, id, fault) ==
    IF fault.at = 1 THEN ReadFailed(fs, date)
    ELSE DeleteRead(fs, date, read_file_lines(fs, date), id, fault)

\* The loop of migrate_open over bullets[1..k], last first: st holds the
\* files, the lines of the source in memory, the number of storage
\* operations made so far and the outcome of a failed add
LoopState(fs, from_lines, io, result, failed) ==
    [fs |-> fs, from_lines |-> from_lines, io |-> io, result |-> result, failed |-> failed]

\* The state after the add of one open entry: its line leaves the lines
\* in memory when the add succeeded
AfterAdd(st, added, line_index) ==
    LoopState(added.fs,
              IF added.result = "Ok" THEN Remove(st.from_lines, line_index)
              ELSE st.from_lines,
              st.io + 2, added.result, added.failed)

\* The loop over the entries first to last: the index of an entry is then
\* that of another line, or of none, once a line before it was removed
RECURSIVE MigrateLoopForward(_, _, _, _, _)
MigrateLoopForward(st, bullets, k, to, fault) ==
    IF k = 0 \/ st.result # "Ok" THEN st
    ELSE IF bullets[Len(bullets) - k + 1].completed
         THEN MigrateLoopForward(st, bullets, k - 1, to, fault)
    ELSE IF bullets[Len(bullets) - k + 1].line_index > Len(st.from_lines)
         THEN LoopState(st.fs, st.from_lines, st.io, "Panicked", <<>>)
    ELSE MigrateLoopForward(
             AfterAdd(st,
                      AddMigrated(st.fs, to,
                                  MigratedText(st.from_lines[bullets[Len(bullets) - k + 1].line_index]),
                                  Shift(fault, st.io)),
                      bullets[Len(bullets) - k + 1].line_index),
             bullets, k - 1, to, fault)

RECURSIVE MigrateLoop(_, _, _, _, _)
MigrateLoop(st, bullets, k, to, fault) ==
    IF k = 0 \/ st.result # "Ok" THEN st
    ELSE IF bullets[k].completed THEN MigrateLoop(st, bullets, k - 1, to, fault)
    ELSE MigrateLoop(AfterAdd(st,
                              AddMigrated(st.fs, to,
                                          MigratedText(st.from_lines[bullets[k].line_index]),
                                          Shift(fault, st.io)),
                              bullets[k].line_index),
                     bullets, k - 1, to, fault)

\* write_file_lines(&from_path, &from_lines)? after the loop
AfterLoop(st, from, fault) ==
    IF st.result # "Ok" THEN Outcome(st.fs, st.result, st.failed)
    ELSE WriteOrFail(st.fs, from, st.from_lines, fault, st.io + 1)

\* The entries added first to last, each line removed where it stands
\* once the lines of the entries before it left
RECURSIVE MigrateLoopInOrder(_, _, _, _, _, _)
MigrateLoopInOrder(st, bullets, k, to, fault, read) ==
    IF k = 0 \/ st.result # "Ok" THEN st
    ELSE IF bullets[Len(bullets) - k + 1].completed
         THEN MigrateLoopInOrder(st, bullets, k - 1, to, fault, read)
    ELSE MigrateLoopInOrder(
             AfterAdd(st,
                      AddMigrated(st.fs, to,
                                  MigratedText(st.from_lines[bullets[Len(bullets) - k + 1].line_index
                                                             - (read - Len(st.from_lines))]),
                                  Shift(fault, st.io)),
                      bullets[Len(bullets) - k + 1].line_index - (read - Len(st.from_lines))),
             bullets, k - 1, to, fault, read)

MigrateAllInOrder(fs, from, to, from_lines, bullets, fault) ==
    AfterLoop(MigrateLoopInOrder(LoopState(fs, from_lines, 1, "Ok", <<>>),
                                 bullets, Len(bullets), to, fault, Len(from_lines)),
              from, fault)

MigrateAll(fs, from, to, from_lines, bullets, fault) ==
    AfterLoop(MigrateLoop(LoopState(fs, from_lines, 1, "Ok", <<>>),
                          bullets, Len(bullets), to, fault),
              from, fault)

MigrateOpenRead(fs, from, to, from_lines, fault) ==
    MigrateAll(fs, from, to, from_lines, parse_bullets(from_lines), fault)

migrate_open(fs, from, to, fault) ==
    IF from = to THEN Outcome(fs, "InvalidOperation", <<>>)
    ELSE IF fault.at = 1 THEN ReadFailed(fs, from)
    ELSE MigrateOpenRead(fs, from, to, read_file_lines(fs, from), fault)

(***************************************************************************)
(* Notification of the meetings about to start.  The clock is in seconds   *)
(* since midnight, a meeting time in minutes since midnight.  The storage  *)
(* operations of an invocation are the read of today's file (1), the read  *)
(* of the state file (2) and its write (3); a failure of the last two is   *)
(* not reported.                                                           *)
(***************************************************************************)
Range(s) == {s[i] : i \in 1..Len(s)}

\* format!("{}|{}", today, t.format("%H:%M"))
StartKey(today, t) == <<today, "|">> \o FormatTime(t)

\* TimeDelta::num_minutes: the whole minutes of a number of seconds,
\* rounded toward zero
NumMinutes(seconds) ==
    IF seconds >= 0 THEN seconds \div 60 ELSE 0 - ((0 - seconds) \div 60)

\* (t - now).num_minutes()
MinutesUntil(t, now) == NumMinutes(60 * t - now)

\* The keys loaded from the state file: none when it does not exist or
\* cannot be read
LoadedKeys(fs, fault) ==
    IF fs[StateFile].exists /\ fault.at # 2 THEN Range(fs[StateFile].lines) ELSE {}

\* The orders in which the iteration of the HashSet can yield the keys
Orderings(S) ==
    {o \in [1..Cardinality(S) -> S] : \A i, j \in 1..Cardinality(S) : o[i] = o[j] => i = j}

\* The meeting of b is notified: its key is not among those loaded and it
\* starts within the window
IsDue(b, today, sent, now, window_minutes) ==
    /\ b.meeting_time # None
    /\ StartKey(today, b.meeting_time[1]) \notin sent
    /\ MinutesUntil(b.meeting_time[1], now) >= 0
    /\ MinutesUntil(b.meeting_time[1], now) <= window_minutes

\* The entries notified, in the order of the file
RECURSIVE DueFrom(_, _, _, _, _, _)
DueFrom(bullets, k, today, sent, now, window_minutes) ==
    IF k > Len(bullets) THEN <<>>
    ELSE (IF IsDue(bullets[k], today, sent, now, window_minutes)
          THEN <<bullets[k]>> ELSE <<>>)
         \o DueFrom(bullets, k + 1, today, sent, now, window_minutes)

\* The notification of an entry: the line of the entry, and the text, the
\* time and the minutes of the message
Delivery(b, now) ==
    [line |-> b.line_index, text |-> b.text, at |-> b.meeting_time[1],
     minutes |-> MinutesUntil(b.meeting_time[1], now)]

Deliveries(due, now) == [i \in 1..Len(due) |-> Delivery(due[i], now)]

NewSent(due, today) == [i \in 1..Len(due) |-> StartKey(today, due[i].meeting_time[1])]

\* fs::write(&state_path, contents).ok() when new_sent is not empty
Persisted(fs, order, new_sent, fault) ==
    IF new_sent = <<>> THEN fs
    ELSE IF fault.at = 3 THEN failed_write(fs, StateFile, order \o new_sent, fault.written)
    ELSE write_file_lines(fs, StateFile, order \o new_sent)

\* The storage operation on the state file that failed unreported
StateFailure(fs, new_sent, fault) ==
    IF fault.at = 2 /\ fs[StateFile].exists THEN <<"read", StateFile>>
    ELSE IF fault.at = 3 /\ new_sent # <<>> THEN <<"write", StateFile>>
    ELSE <<>>

Notified(fs, result, failed, deliveries) ==
    [fs |-> fs, result |-> result, failed |-> failed, delivered |-> deliveries]

NotifyDue(fs, today, now, order, due, fault) ==
    Notified(Persisted(fs, order, NewSent(due, today), fault), "Ok",
             StateFailure(fs, NewSent(due, today), fault), Deliveries(due, now))

NotifyLoaded(fs, today, now, window_minutes, sent, order, fault) ==
    NotifyDue(fs, today, now, order,
              DueFrom(parse_bullets(read_file_lines(fs, today)), 1, today, sent, now,
                      window_minutes),
              fault)

\* The keys already notified are not looked at
NotifyAgain(fs, today, now, window_minutes, order, fault) ==
    IF fault.at = 1 THEN Notified(fs, "StorageUnavailable", <<"read", today>>, <<>>)
    ELSE NotifyLoaded(fs, today, now, window_minutes, {}, order, fault)

notify_upcoming_meetings(fs, today, now, window_minutes, order, fault) ==
    IF fault.at = 1 THEN Notified(fs, "StorageUnavailable", <<"read", today>>, <<>>)
    ELSE NotifyLoaded(fs, today, now, window_minutes, LoadedKeys(fs, fault), order, fault)

(***************************************************************************)
(* The state: the day files, and for the claims the files of the initial   *)
(* state, the files as they were when the last invocation started, and the *)
(* invocations made so far with what each returned.                        *)
(***************************************************************************)
VARIABLES files, initial, before, log, clock, delivered, codec, procs

vars == <<files, initial, before, log, clock, delivered, codec, procs>>

\* The codec at rest: no line decoded
NoCodec == [line |-> <<>>, entry |-> None, encoded |-> None, again |-> None]

\* The files of a state: the two day files and no state file
FilesOf(f1, f2) ==
    [p \in Paths |-> IF p = "d1" THEN f1 ELSE IF p = "d2" THEN f2 ELSE NoFile]

\* Lines of the day files of the initial states: entries open and done,
\* a note line, a blank line, indented free text, an indented entry whose
\* text starts with the open marker, and a meeting with a priority
LinePool ==
    { OpenMarker \o <<"a">>,
      DoneMarker \o <<"b">>,
      NotePrefix \o <<"n">>,
      <<>>,
      <<" ", " ", "f">>,
      <<" ">> \o OpenMarker \o OpenMarker \o <<"c", " ", "#", "t">>,
      OpenMarker \o MtgPrefix \o <<"1", "0", ":", "3", "0", " ", "3", "0", "]", " ">>
                 \o PriMed \o <<"m">> }

LineSeqs(n) == UNION {[1..k -> LinePool] : k \in 0..n}

\* The arguments the invocations are given
Times      == { 9 * 60 + 5 }
Durations  == { 45 }
Ids        == 0..(MaxLines + 1)

\* The faults of an invocation whose storage operations are those of all,
\* the writes among them those of writes
Faults(all, writes) ==
    {NoFault} \cup {[at |-> k, written |-> -1] : k \in all}
              \cup {[at |-> k, written |-> w] : k \in writes, w \in 0..MaxWritten}

AddFaults == Faults({1, 2}, {2})

NoArgs == [text |-> <<>>, priority |-> None, tags |-> <<>>, notes |-> <<>>,
           time |-> None, duration |-> None]

AddArgs(text, priority, tags, notes) ==
    [NoArgs EXCEPT !.text = text, !.priority = priority, !.tags = tags, !.notes = notes]

\* The additions tried: a plain text, a text to trim that starts like a
\* priority, each with and without a priority, tags and notes
AddCases ==
    { AddArgs(<<"a">>, None, <<>>, <<>>),
      AddArgs(<<"a">>, None, <<<<"t">>>>, <<>>),
      AddArgs(<<"a">>, Some(3), <<>>, <<<<"n">>>>),
      AddArgs(<<" ", "(", "!", ")", " ", "c", " ">>, Some(2), <<<<"t">>, <<"u">>>>,
              <<<<"n">>, <<"o">>>>) }

MeetingCases ==
    { AddArgs(<<"a">>, None, <<>>, <<>>),
      AddArgs(<<"(", "!", ")", " ", "c">>, None, <<<<"t">>>>, <<<<"n">>>>) }

Invocation(op, from, to, id, args, o) ==
    [op |-> op, from |-> from, to |-> to, id |-> id, args |-> args,
     result |-> o.result, failed |-> o.failed]

\* The last invocation
last == IF log = <<>> THEN Invocation("none", "d1", "d1", 0, NoArgs, Ok(files))
        ELSE log[Len(log)]

Init ==
    /\ \E f1 \in {NoFile} \cup {FileOf(l) : l \in LineSeqs(MaxLines)},
          f2 \in {NoFile, FileOf(<<DoneMarker \o <<"b">>, NotePrefix \o <<"n">>>>)} :
            files = FilesOf(f1, f2)
    /\ initial = files
    /\ before = files
    /\ log = <<>>
    /\ clock = 0
    /\ delivered = <<>>
    /\ codec = NoCodec
    /\ procs = <<>>

\* One invocation, o what it leaves and returns
Step(max, op, from, to, id, args, o) ==
    /\ Len(log) < max
    /\ files' = o.fs
    /\ before' = files
    /\ log' = Append(log, Invocation(op, from, to, id, args, o))
    /\ UNCHANGED <<initial, clock, delivered, codec, procs>>

AddWith(max, dates, faults) ==
    \E date \in dates, a \in AddCases, fault \in faults :
        Step(max, "add", date, date, 0, a,
             add_bullet(files, date, a.text, a.priority, a.tags, a.notes, fault))

AddMeetingWith(max, dates, faults) ==
    \E date \in dates, time \in Times, duration \in Durations, a \in MeetingCases,
       fault \in faults :
        Step(max, "addMeeting", date, date, 0,
             [a EXCEPT !.time = Some(time), !.duration = Some(duration)],
             add_meeting(files, date, time, duration, a.text, a.tags, a.notes, fault))

Add == AddWith(MaxSteps, Dates, AddFaults)

AddMeeting == AddMeetingWith(MaxSteps, Dates, AddFaults)

Complete ==
    \E date \in Dates, id \in Ids, fault \in Faults({1, 2}, {2}) :
        Step(MaxSteps, "complete", date, date, id, NoArgs,
             mark_done(files, date, id, fault))

Delete ==
    \E date \in Dates, id \in Ids, fault \in Faults({1, 2}, {2}) :
        Step(MaxSteps, "delete", date, date, id, NoArgs,
             delete_bullet(files, date, id, fault))

MigrateOne ==
    \E from \in Dates, to \in Dates, id \in Ids, fault \in Faults(1..4, {3, 4}) :
        Step(MaxSteps, "migrateOne", from, to, id, NoArgs,
             migrate_one(files, from, to, id, fault))

\* migrate_open reads the source, reads and writes the destination once
\* for each open entry, and writes the source
OpenFaults(n) == Faults(1..(2 + 2 * n), 2..(2 + 2 * n))

MigrateOpen ==
    \E from \in Dates, to \in Dates :
      \E fault \in OpenFaults(Len(read_file_lines(files, from))) :
        Step(MaxSteps, "migrateOpen", from, to, 0, NoArgs,
             migrate_open(files, from, to, fault))

Next == Add \/ AddMeeting \/ Complete \/ Delete \/ MigrateOne \/ MigrateOpen

Spec == Init /\ [][Next]_vars

(***************************************************************************)
(* Runs of additions to a day file that starts short.                      *)
(***************************************************************************)
InitAdds ==
    /\ \E f1 \in {NoFile} \cup {FileOf(l) : l \in LineSeqs(MaxAddLines)} :
            files = FilesOf(f1, NoFile)
    /\ initial = files
    /\ before = files
    /\ log = <<>>
    /\ clock = 0
    /\ delivered = <<>>
    /\ codec = NoCodec
    /\ procs = <<>>

AddRun == AddWith(MaxAdds, {"d1"}, {NoFault})

AddMeetingRun == AddMeetingWith(MaxAdds, {"d1"}, {NoFault})

NextAdds == AddRun \/ AddMeetingRun

SpecAdds == InitAdds /\ [][NextAdds]_vars

(***************************************************************************)
(* Meetings added to today's file, the clock moving on, and notifications: *)
(* a new installation, its state file absent.                              *)
(***************************************************************************)
Today == "d1"

\* 10:30 and 10:40
MeetingTimes == {10 * 60 + 30, 10 * 60 + 40}
MeetingTitles == {<<"b">>}

\* 10:20:00, 10:30:30 and 10:35:00
Instants == {37200, 37830, 38100}
Windows == {5, 15}

NotifyFaults == Faults({1, 2, 3}, {3})

InitNotify ==
    /\ \E f1 \in {NoFile, FileOf(<<OpenMarker \o MeetingPrefix(10 * 60 + 30, 30) \o <<"a">>>>)} :
            files = FilesOf(f1, NoFile)
    /\ initial = files
    /\ before = files
    /\ log = <<>>
    /\ clock \in Instants
    /\ delivered = <<>>
    /\ codec = NoCodec
    /\ procs = <<>>

Schedule ==
    \E time \in MeetingTimes, title \in MeetingTitles :
        Step(MaxNotifySteps, "addMeeting", Today, Today, 0,
             [NoArgs EXCEPT !.text = title, !.time = Some(time), !.duration = Some(30)],
             add_meeting(files, Today, time, 30, title, <<>>, <<>>, NoFault))

Tick ==
    /\ \E t \in Instants : t > clock /\ clock' = t
    /\ UNCHANGED <<files, initial, before, log, delivered, codec, procs>>

\* The deliveries of the call number n
Stamped(deliveries, n) == [i \in 1..Len(deliveries) |-> [call |-> n, what |-> deliveries[i]]]

NotifyStep(window_minutes, o) ==
    /\ Len(log) < MaxNotifySteps
    /\ files' = o.fs
    /\ before' = files
    /\ log' = Append(log, Invocation("notify", Today, Today, window_minutes,
                                     [NoArgs EXCEPT !.time = Some(clock)], o))
    /\ delivered' = delivered \o Stamped(o.delivered, Len(log) + 1)
    /\ UNCHANGED <<initial, clock, codec, procs>>

Notify ==
    \E window_minutes \in Windows, fault \in NotifyFaults :
      \E order \in Orderings(LoadedKeys(files, fault)) :
        NotifyStep(window_minutes,
                   notify_upcoming_meetings(files, Today, clock, window_minutes, order, fault))

NextNotify == Schedule \/ Tick \/ Notify

SpecNotify == InitNotify /\ [][NextNotify]_vars

(***************************************************************************)
(* The codec on its own: an open entry line is decoded, the fields decoded *)
(* are encoded again, and the line encoded is decoded.                     *)
(***************************************************************************)
\* What can follow the marker: a meeting bracket, well formed or not,
\* a priority, and a body with tags in it
CodecBrackets ==
    { <<>>,
      <<"[", "m", "t", "g", " ", "1", "0", ":", "3", "0", " ", "3", "0", "]", " ">>,
      <<"[", "m", "t", "g", " ", "1", "0", ":", "3", "0", "]", " ">>,
      <<"[", "m", "t", "g", " ", "2", "5", ":", "0", "0", " ", "3", "0", "]", " ">>,
      <<"[", "m", "t", "g", " ", "7", ":", "5", " ", "x", "]", " ">> }

CodecPriorities == {<<>>, PriLow, PriHigh}

CodecBodies ==
    { <<"a">>,
      <<"a", " ", "#", " ", "b">>,
      <<"S", "h", "i", "p", " ", "#", "w", "o", "r", "k", " ", "t", "h", "e", " ", "r", "e", "l", "e", "a", "s", "e">>,
      <<"#", "t", " ", "a", " ", " ", "#", "t">>,
      <<"#">> }

\* The bracket before the priority, as the grammar has it, and after it,
\* as add_bullet writes it
CodecLines ==
    {OpenMarker \o m \o p \o b : m \in CodecBrackets, p \in CodecPriorities, b \in CodecBodies}
    \cup {OpenMarker \o p \o m \o b :
            m \in CodecBrackets, p \in CodecPriorities, b \in CodecBodies}

InitCodec ==
    /\ files = FilesOf(NoFile, NoFile)
    /\ initial = files
    /\ before = files
    /\ log = <<>>
    /\ clock = 0
    /\ delivered = <<>>
    /\ \E line \in CodecLines : codec = [NoCodec EXCEPT !.line = line]
    /\ procs = <<>>

Decode ==
    /\ codec.entry = None
    /\ codec' = [codec EXCEPT !.entry = Some(DecodedLine(codec.line))]
    /\ UNCHANGED <<files, initial, before, log, clock, delivered, procs>>

Encode ==
    /\ codec.entry # None
    /\ codec.encoded = None
    /\ codec' = [codec EXCEPT !.encoded = Some(EncodedLine(codec.entry[1]))]
    /\ UNCHANGED <<files, initial, before, log, clock, delivered, procs>>

DecodeAgain ==
    /\ codec.encoded # None
    /\ codec.again = None
    /\ codec' = [codec EXCEPT !.again = Some(DecodedLine(codec.encoded[1]))]
    /\ UNCHANGED <<files, initial, before, log, clock, delivered, procs>>

NextCodec == Decode \/ Encode \/ DecodeAgain

SpecCodec == InitCodec /\ [][NextCodec]_vars

(***************************************************************************)
(* Two invocations at once.  An invocation is a process of its own; its    *)
(* steps are its reads and writes of whole files, and between them it      *)
(* holds what it read in memory: pc is where it stands, lines the lines of *)
(* the source in memory, read those lines as they were read, todo the line *)
(* indices of the open entries still to migrate, last first, to_lines the  *)
(* lines of the destination add_bullet read, added the lines it appended   *)
(* to the destination.  Nothing is locked; the log holds the reads and     *)
(* writes in their order, id the process.                                  *)
(***************************************************************************)
Procs == {1, 2}

RaceTexts == <<<<"y">>, <<"z">>>>

\* The first invocation adds or migrates the open entries, the second adds
RaceOps(p) == IF p = 1 THEN {"add", "migrateOpen"} ELSE {"add"}

RacePool == {OpenMarker \o <<"a">>, DoneMarker \o <<"b">>, NotePrefix \o <<"n">>}

RaceFiles == UNION {[1..k -> RacePool] : k \in 0..MaxRaceLines}

Proc(op, text) ==
    [op |-> op, text |-> text, from |-> "d1", to |-> "d2", pc |-> "start",
     lines |-> <<>>, read |-> <<>>, todo |-> <<>>, to_lines |-> <<>>, added |-> <<>>,
     result |-> "none"]

InitRace ==
    /\ \E f1 \in {NoFile} \cup {FileOf(l) : l \in RaceFiles} : files = FilesOf(f1, NoFile)
    /\ initial = files
    /\ before = files
    /\ log = <<>>
    /\ clock = 0
    /\ delivered = <<>>
    /\ codec = NoCodec
    /\ \E op \in RaceOps(1) : procs = [p \in Procs |-> Proc(IF p = 1 THEN op ELSE "add", RaceTexts[p])]

\* One read or write of process p: what it leaves in the files and in p
RaceStep(p, what, date, fs, proc) ==
    /\ files' = fs
    /\ before' = files
    /\ procs' = [procs EXCEPT ![p] = proc]
    /\ log' = Append(log, Invocation(what, date, date, p, NoArgs, Ok(fs)))
    /\ UNCHANGED <<initial, clock, delivered, codec>>

\* The lines add_bullet writes while the file holds what another has written
WrittenByAddFresh(fs, proc) ==
    AddedLines(read_file_lines(fs, proc.from), proc.text, None, <<>>, <<>>)

\* The lines add_bullet writes: those it read and the new entry
WrittenByAdd(fs, proc) == AddedLines(proc.lines, proc.text, None, <<>>, <<>>)

\* add_bullet: let mut lines = read_file_lines(&path)?
AddRead ==
    \E p \in Procs :
        /\ procs[p].op = "add" /\ procs[p].pc = "start"
        /\ RaceStep(p, "read", procs[p].from, files,
                    [procs[p] EXCEPT !.pc = "read",
                                     !.lines = read_file_lines(files, procs[p].from),
                                     !.read = read_file_lines(files, procs[p].from)])

\* add_bullet: write_file_lines(&path, &lines)?
AddWrite ==
    \E p \in Procs :
        /\ procs[p].op = "add" /\ procs[p].pc = "read"
        /\ RaceStep(p, "write", procs[p].from,
                    write_file_lines(files, procs[p].from, WrittenByAdd(files, procs[p])),
                    [procs[p] EXCEPT !.pc = "done", !.result = "Ok",
                                     !.lines = WrittenByAdd(files, procs[p])])

\* The line indices of the open entries, last first
RECURSIVE OpenLast(_, _)
OpenLast(bullets, k) ==
    IF k = 0 THEN <<>>
    ELSE (IF bullets[k].completed THEN <<>> ELSE <<bullets[k].line_index>>)
         \o OpenLast(bullets, k - 1)

\* migrate_open: the source read, and its entries decoded, once
MigrateOpenReadSource ==
    \E p \in Procs :
        /\ procs[p].op = "migrateOpen" /\ procs[p].pc = "start"
        /\ RaceStep(p, "read", procs[p].from, files,
                    [procs[p] EXCEPT
                        !.pc = "loop",
                        !.lines = read_file_lines(files, procs[p].from),
                        !.read = read_file_lines(files, procs[p].from),
                        !.todo = OpenLast(parse_bullets(read_file_lines(files, procs[p].from)),
                                          Len(parse_bullets(read_file_lines(files, procs[p].from))))])

\* The source read again before each entry: the lines appended to it since
\* it was read join the lines in memory, their open entries the entries to
\* migrate
Refreshed(fs, proc) ==
    [proc EXCEPT
        !.lines = proc.lines \o Drop(read_file_lines(fs, proc.from), Len(proc.read)),
        !.read = IF Len(read_file_lines(fs, proc.from)) > Len(proc.read)
                 THEN read_file_lines(fs, proc.from) ELSE proc.read,
        !.todo = SelectSeq(OpenLast(parse_bullets(read_file_lines(fs, proc.from)),
                                    Len(parse_bullets(read_file_lines(fs, proc.from)))),
                           LAMBDA i : i > Len(proc.read)) \o proc.todo]

\* What the loop of migrate_open works on: what the invocation holds in
\* memory since it read the source, whatever the file holds by now
Snapshot(fs, proc) == proc

\* The line add_bullet appends for the next entry to migrate
MigratedLine(proc) ==
    AddedLines(<<>>, MigratedText(proc.lines[Head(proc.todo)]).full_text,
               MigratedText(proc.lines[Head(proc.todo)]).priority,
               MigratedText(proc.lines[Head(proc.todo)]).tags, <<>>)[1]

\* add_bullet of the loop: the destination read
MigrateOpenAddRead ==
    \E p \in Procs :
        /\ procs[p].op = "migrateOpen" /\ procs[p].pc = "loop"
        /\ Snapshot(files, procs[p]).todo # <<>>
        /\ RaceStep(p, "read", procs[p].to, files,
                    [Snapshot(files, procs[p]) EXCEPT
                        !.pc = "adding", !.to_lines = read_file_lines(files, procs[p].to)])

\* add_bullet of the loop: the destination written, and the line of the
\* entry removed from the lines in memory
MigrateOpenAddWrite ==
    \E p \in Procs :
        /\ procs[p].op = "migrateOpen" /\ procs[p].pc = "adding"
        /\ RaceStep(p, "write", procs[p].to,
                    write_file_lines(files, procs[p].to,
                                     Append(procs[p].to_lines, MigratedLine(procs[p]))),
                    [procs[p] EXCEPT
                        !.pc = "loop",
                        !.lines = Remove(procs[p].lines, Head(procs[p].todo)),
                        !.todo = Tail(procs[p].todo),
                        !.added = Append(procs[p].added, MigratedLine(procs[p]))])

\* migrate_open: write_file_lines(&from_path, &from_lines)? after the loop
MigrateOpenSave ==
    \E p \in Procs :
        /\ procs[p].op = "migrateOpen" /\ procs[p].pc = "loop"
        /\ Snapshot(files, procs[p]).todo = <<>>
        /\ RaceStep(p, "write", procs[p].from,
                    write_file_lines(files, procs[p].from, procs[p].lines),
                    [procs[p] EXCEPT !.pc = "done", !.result = "Ok"])

NextRace ==
    \/ AddRead
    \/ AddWrite
    \/ MigrateOpenReadSource
    \/ MigrateOpenAddRead
    \/ MigrateOpenAddWrite
    \/ MigrateOpenSave

SpecRace == InitRace /\ [][NextRace]_vars

(***************************************************************************)
(* What the claims speak of.                                               *)
(***************************************************************************)
LinesOf(fs, date) == read_file_lines(fs, date)
Decoded(fs, date) == parse_bullets(LinesOf(fs, date))

IsNoteLine(line) == StartsWith(line, NotePrefix)
IsOpaqueLine(line) == ~IsEntryLine(line) /\ ~IsNoteLine(line)
OpaqueLines(lines) == SelectSeq(lines, IsOpaqueLine)

\* An entry without its positions
Content(b) ==
    [completed |-> b.completed, text |-> b.text, priority |-> b.priority,
     tags |-> b.tags, notes |-> b.notes, meeting_time |-> b.meeting_time,
     meeting_duration_min |-> b.meeting_duration_min]

\* What migration is to carry over
Carried(b) == [text |-> b.text, priority |-> b.priority, tags |-> b.tags]
CarriedWithMeeting(b) ==
    [text |-> b.text, priority |-> b.priority, tags |-> b.tags,
     meeting_time |-> b.meeting_time, meeting_duration_min |-> b.meeting_duration_min]

Succeeded(op) == last.op = op /\ last.result = "Ok"

\* The sequence s without its k-th element
Without(s, k) == [i \in 1..(Len(s) - 1) |-> IF i < k THEN s[i] ELSE s[i + 1]]

Map(s, F(_)) == [i \in 1..Len(s) |-> F(s[i])]

(***************************************************************************)
(* C1.  delete(date, k) of an existing visible id k removes exactly the    *)
(* entry line of k and the note lines of its contiguous note block, and no *)
(* other line; decode then yields one entry fewer, the entries after k     *)
(* have their visible index reduced by one, and every remaining entry has  *)
(* the text, priority, tags, notes and completed flag it had.              *)
(***************************************************************************)
C1_DeleteRemovesEntryAndNotes ==
    Succeeded("delete") =>
        LET old == LinesOf(before, last.from)
            was == parse_bullets(old)
            now == Decoded(files, last.from)
            t   == was[last.id]
        IN /\ LinesOf(files, last.from)
                = RemoveAll(old, t.line_index..(t.line_index + Len(t.notes)))
           /\ Len(now) = Len(was) - 1
           /\ \A v \in 1..Len(now) : now[v].visible_index = v
           /\ Map(now, Content) = Without(Map(was, Content), last.id)

(***************************************************************************)
(* C2.  No mutation removes, alters or reorders an opaque line: after any  *)
(* sequence of successful invocations the opaque lines of every day file   *)
(* are those it had initially, in the same order.                          *)
(***************************************************************************)
C2_OpaqueLinesSurvive ==
    (\A i \in 1..Len(log) : log[i].result = "Ok") =>
        \A d \in Dates :
            OpaqueLines(LinesOf(files, d)) = OpaqueLines(LinesOf(initial, d))

(***************************************************************************)
(* C3.  A successful migrateOpen(from, to), from # to, leaves in from      *)
(* exactly the entries that were completed, in their order; to keeps the   *)
(* lines it had and gains one open entry without notes for each entry that *)
(* was open, with the text, priority and tags of that entry.               *)
(***************************************************************************)
IsCompleted(b) == b.completed
IsOpen(b) == ~b.completed

Bijections(n) == {f \in [1..n -> 1..n] : \A i, j \in 1..n : f[i] = f[j] => i = j}

\* The entries of s after the first n
EntriesAfter(s, n) == [i \in 1..(Len(s) - n) |-> s[n + i]]

C3_MigrateOpenMovesOpenEntries ==
    (Succeeded("migrateOpen") /\ last.from # last.to) =>
        LET was    == Decoded(before, last.from)
            now    == Decoded(files, last.from)
            moved  == SelectSeq(was, IsOpen)
            oldTo  == LinesOf(before, last.to)
            gained == EntriesAfter(Decoded(files, last.to), Len(Decoded(before, last.to)))
        IN /\ Map(now, CarriedWithMeeting) = Map(SelectSeq(was, IsCompleted), CarriedWithMeeting)
           /\ \A v \in 1..Len(now) : now[v].completed
           /\ Take(LinesOf(files, last.to), Len(oldTo)) = oldTo
           /\ Len(LinesOf(files, last.to)) = Len(oldTo) + Len(moved)
           /\ Len(gained) = Len(moved)
           /\ \A j \in 1..Len(gained) : ~gained[j].completed /\ gained[j].notes = <<>>
           /\ \E f \in Bijections(Len(moved)) :
                 \A j \in 1..Len(moved) : Carried(gained[f[j]]) = Carried(moved[j])

(***************************************************************************)
(* C4.  A successful migrateOne(from, to, k), from # to and k open,        *)
(* appends to to one open entry with the text, priority, tags and meeting  *)
(* that entry k decoded to, whatever its raw line; the lines to held are   *)
(* unchanged, and from decodes to its entries without k, their texts,      *)
(* priorities and tags unchanged and in order.                             *)
(***************************************************************************)
C4_MigrateOneCarriesDecodedEntry ==
    Succeeded("migrateOne") =>
        LET was   == Decoded(before, last.from)
            oldTo == LinesOf(before, last.to)
            newTo == LinesOf(files, last.to)
            dest  == Decoded(files, last.to)
        IN /\ Len(newTo) = Len(oldTo) + 1
           /\ Take(newTo, Len(oldTo)) = oldTo
           /\ Len(dest) = Len(Decoded(before, last.to)) + 1
           /\ ~dest[Len(dest)].completed
           /\ CarriedWithMeeting(dest[Len(dest)]) = CarriedWithMeeting(was[last.id])
           /\ Map(Decoded(files, last.from), Carried) = Without(Map(was, Carried), last.id)

(***************************************************************************)
(* C5.  migrateOne(from, to, k) fails with InvalidOperation when from = to *)
(* whatever k is, with NotFound when from # to and k is no visible id of   *)
(* from, and with AlreadyCompleted when from # to and entry k is           *)
(* completed (the source being readable); in the three cases no day file   *)
(* is changed.                                                             *)
(***************************************************************************)
Migrations == {"migrateOne", "migrateOpen"}

SourceRead == last.failed # <<"read", last.from>>

HasId(bullets, id) == \E v \in 1..Len(bullets) : bullets[v].visible_index = id

C5_MigrateOneErrors ==
    last.op = "migrateOne" =>
        LET was == Decoded(before, last.from)
        IN /\ last.from = last.to =>
                last.result = "InvalidOperation" /\ files = before
           /\ (last.from # last.to /\ SourceRead /\ ~HasId(was, last.id)) =>
                last.result = "NotFound" /\ files = before
           /\ (last.from # last.to /\ SourceRead /\ HasId(was, last.id)
                 /\ was[last.id].completed) =>
                last.result = "AlreadyCompleted" /\ files = before

C5_Witness ==
    /\ last.op = "migrateOne"
    /\ last.from # last.to
    /\ last.result = "AlreadyCompleted"
    /\ Len(Decoded(before, last.from)) > 1

(***************************************************************************)
(* C6.  When a write to the destination day file fails in migrateOne or    *)
(* migrateOpen, the source day file is as it was before the call.          *)
(***************************************************************************)
C6_DestinationWriteFailureSparesSource ==
    (last.op \in Migrations /\ last.failed = <<"write", last.to>>) =>
        files[last.from] = before[last.from]

C6_Witness ==
    /\ last.op = "migrateOpen"
    /\ last.failed = <<"write", last.to>>
    /\ Len(Decoded(files, last.to)) > Len(Decoded(before, last.to))
    /\ Len(SelectSeq(Decoded(before, last.from), IsOpen)) > 1

(***************************************************************************)
(* C7.  A migration that fails on a storage read or write leaves the       *)
(* source and the destination day file as they were before the call.       *)
(***************************************************************************)
C7_FailedMigrationChangesNothing ==
    (last.op \in Migrations /\ last.result = "StorageUnavailable") => files = before

(***************************************************************************)
(* C8.  add appends: the lines the day held stay, unchanged, in front of   *)
(* the new ones, and the new entry is the last entry, its visible index    *)
(* the previous number of entries plus one; so N additions to an empty     *)
(* date decode to N entries with the visible indices 1..N, in the order of *)
(* the additions, whatever their priorities and meeting times.             *)
(***************************************************************************)
Additions == {"add", "addMeeting"}

C8_AddAppends ==
    /\ (last.op \in Additions /\ last.result = "Ok") =>
          LET old == LinesOf(before, last.from)
              new == LinesOf(files, last.from)
              was == parse_bullets(old)
              now == parse_bullets(new)
          IN /\ Take(new, Len(old)) = old
             /\ Len(new) = Len(old) + 1 + Len(last.args.notes)
             /\ Len(now) = Len(was) + 1
             /\ Take(now, Len(was)) = was
             /\ now[Len(now)].visible_index = Len(was) + 1
             /\ now[Len(now)].line_index = Len(old) + 1
             /\ ~now[Len(now)].completed
             /\ now[Len(now)].notes = last.args.notes
    /\ \A d \in Dates :
          (/\ LinesOf(initial, d) = <<>>
           /\ \A i \in 1..Len(log) :
                 log[i].op \in Additions /\ log[i].from = d /\ log[i].result = "Ok") =>
             LET now == Decoded(files, d)
             IN /\ Len(now) = Len(log)
                /\ \A k \in 1..Len(now) :
                      /\ now[k].visible_index = k
                      /\ now[k].tags = log[k].args.tags
                      /\ now[k].notes = log[k].args.notes
                      /\ now[k].meeting_time = log[k].args.time
                      /\ now[k].meeting_duration_min = log[k].args.duration

C8_Witness ==
    /\ Len(log) = MaxAdds
    /\ LinesOf(initial, "d1") = <<>>
    /\ log[1].op = "addMeeting"
    /\ log[2].op = "add" /\ log[2].args.priority = Some(3)
    /\ log[3].op = "add" /\ log[3].args.priority = None
    /\ Len(Decoded(files, "d1")) = MaxAdds

(***************************************************************************)
(* C9.  complete(date, k) of an existing entry changes nothing but the     *)
(* completion flag of k: the other lines are unchanged, the line of k      *)
(* differs at most in its marker, and the entries are as many, each with   *)
(* the visible index, text, priority, tags, notes and meeting it had, the  *)
(* entries other than k with the completed flag they had.                  *)
(***************************************************************************)
LeadingWs(line) == Take(line, Len(line) - Len(TrimStart(line)))
AfterMarker(line) == Drop(TrimStart(line), Len(OpenMarker))

C9_CompleteChangesOnlyTheFlag ==
    Succeeded("complete") =>
        LET old == LinesOf(before, last.from)
            new == LinesOf(files, last.from)
            was == parse_bullets(old)
            now == parse_bullets(new)
            i   == was[last.id].line_index
        IN /\ Len(new) = Len(old)
           /\ \A j \in 1..Len(old) : j # i => new[j] = old[j]
           /\ LeadingWs(new[i]) = LeadingWs(old[i])
           /\ AfterMarker(new[i]) = AfterMarker(old[i])
           /\ IsDoneLine(new[i])
           /\ IsDoneLine(old[i]) => new[i] = old[i]
           /\ Len(now) = Len(was)
           /\ \A v \in 1..Len(was) :
                 now[v] = [was[v] EXCEPT !.completed = IF v = last.id THEN TRUE ELSE @]
           /\ \A d \in Dates \ {last.from} : files[d] = before[d]

C9_Witness ==
    /\ Succeeded("complete")
    /\ Len(Decoded(before, last.from)) > 1
    /\ ~Decoded(before, last.from)[last.id].completed
    /\ Decoded(before, last.from)[last.id].notes # <<>>
    /\ Decoded(files, last.from)[last.id].completed

(***************************************************************************)
(* C10.  complete is idempotent: complete(date, k) applied again after it  *)
(* succeeded succeeds and leaves the content of the day file it left.      *)
(***************************************************************************)
C10_CompleteIsIdempotent ==
    Succeeded("complete") => mark_done(files, last.from, last.id, NoFault) = Ok(files)

C10_Witness ==
    /\ Succeeded("complete")
    /\ files # before
    /\ IsOpenLine(LinesOf(before, last.from)[Decoded(before, last.from)[last.id].line_index])
    /\ mark_done(files, last.from, last.id, NoFault).result = "Ok"

(***************************************************************************)
(* C11.  complete(date, k) and delete(date, k) fail with NotFound when k   *)
(* is no visible id of the date (k = 0, k above the number of entries, a   *)
(* date without a file or without entries), the day file being readable;   *)
(* the day files are then as they were, and no file is created.            *)
(***************************************************************************)
ByVisibleId == {"complete", "delete"}

C11_UnknownIdIsNotFound ==
    (last.op \in ByVisibleId /\ SourceRead /\ ~HasId(Decoded(before, last.from), last.id)) =>
        last.result = "NotFound" /\ files = before

C11_Witness ==
    /\ last.op = "delete"
    /\ last.result = "NotFound"
    /\ ~before[last.from].exists
    /\ ~files[last.from].exists

(***************************************************************************)
(* C12.  A successful migrateOne takes one line out of the source, the     *)
(* entry line of the migrated entry: the other lines, the note lines that  *)
(* were attached to it among them, stay in their order, and the entry      *)
(* added to the destination has no notes.                                  *)
(***************************************************************************)
C12_MigrateOneLeavesNotes ==
    Succeeded("migrateOne") =>
        LET old  == LinesOf(before, last.from)
            i    == Decoded(before, last.from)[last.id].line_index
            dest == Decoded(files, last.to)
        IN /\ LinesOf(files, last.from) = Without(old, i)
           /\ \A n \in 1..Len(Decoded(before, last.from)[last.id].notes) :
                 LinesOf(files, last.from)[i + n - 1] = old[i + n]
           /\ Len(dest) = Len(Decoded(before, last.to)) + 1
           /\ dest[Len(dest)].notes = <<>>

C12_Witness ==
    /\ Succeeded("migrateOne")
    /\ Decoded(before, last.from)[last.id].notes # <<>>
    /\ Len(LinesOf(files, last.from)) = Len(LinesOf(before, last.from)) - 1
    /\ \E j \in 1..Len(LinesOf(files, last.from)) : IsNoteLine(LinesOf(files, last.from)[j])

(***************************************************************************)
(* C13.  Notifications are deduplicated by key.  For a meeting entry of    *)
(* today's file that starts within the window of every call of a run of    *)
(* successive notifyUpcoming calls, the calls succeeding and no read or    *)
(* write of the state file having failed: its notification is delivered at *)
(* most once in total, and it is delivered unless the notification of      *)
(* another entry with the same start time was.                             *)
(***************************************************************************)
StateFailures == {<<"read", StateFile>>, <<"write", StateFile>>}

StatePersists == \A n \in 1..Len(log) : log[n].failed \notin StateFailures

\* The calls of the run of successive notifications the log ends with
Run == {n \in 1..Len(log) : \A m \in n..Len(log) : log[m].op = "notify"}

InWindow(e, n) ==
    /\ MinutesUntil(e.meeting_time[1], log[n].args.time[1]) >= 0
    /\ MinutesUntil(e.meeting_time[1], log[n].args.time[1]) <= log[n].id

\* Entry e is a meeting the calls of the run are to notify
Upcoming(e) ==
    /\ Run # {}
    /\ StatePersists
    /\ e.meeting_time # None
    /\ \A n \in Run : log[n].result = "Ok" /\ InWindow(e, n)

DeliveriesOf(e) == {i \in 1..Len(delivered) : delivered[i].what.line = e.line_index}

C13_NotifiedOnceForAKey ==
    \A v \in 1..Len(Decoded(files, Today)) :
        LET e == Decoded(files, Today)[v]
        IN Upcoming(e) =>
              /\ Cardinality(DeliveriesOf(e)) <= 1
              /\ DeliveriesOf(e) = {} =>
                    \E i \in 1..Len(delivered) :
                        /\ delivered[i].what.at = e.meeting_time[1]
                        /\ delivered[i].what.line # e.line_index

C13_Witness ==
    /\ Cardinality(Run) >= 2
    /\ \E v \in 1..Len(Decoded(files, Today)) :
          /\ Upcoming(Decoded(files, Today)[v])
          /\ Cardinality(DeliveriesOf(Decoded(files, Today)[v])) = 1

\* As first stated: each such entry is notified exactly once in total
C13_EachEntryNotifiedOnce ==
    \A v \in 1..Len(Decoded(files, Today)) :
        Upcoming(Decoded(files, Today)[v]) =>
            Cardinality(DeliveriesOf(Decoded(files, Today)[v])) = 1

(***************************************************************************)
(* C14.  The keys of the state file only grow: after every invocation the  *)
(* set of the keys in the state file includes the set before it, so that   *)
(* no invocation that succeeds removes a key.                              *)
(***************************************************************************)
KeysOf(fs) == Range(LinesOf(fs, StateFile))

C14_KeysOnlyGrow ==
    (\A n \in 1..Len(log) : log[n].result = "Ok") => KeysOf(before) \subseteq KeysOf(files)

(***************************************************************************)
(* C15.  Decoding is stable under re-encoding: an entry line decoded, its  *)
(* fields encoded again and the line encoded decoded gives the completed   *)
(* flag, text, priority, tags and meeting of the first decoding.           *)
(***************************************************************************)
C15_DecodeEncodeDecode ==
    codec.again # None =>
        /\ codec.again[1] = codec.entry[1]
        /\ IsDoneLine(codec.encoded[1]) = IsDoneLine(codec.line)

(***************************************************************************)
(* C16.  Decoding takes out of the text the tokens that start with '#' and *)
(* are longer than it, and only them: they are the tags, without the '#',  *)
(* in their order and with their duplicates; the other tokens, a lone '#'  *)
(* among them, are the text, in their order and joined by single spaces.   *)
(* The line encoded again has the tags at its end: "- [ ] Ship #work the   *)
(* release" decodes to the text "Ship the release" and the tag "work" and  *)
(* is encoded as "- [ ] Ship the release #work".                           *)
(***************************************************************************)
IsTagToken(tok) == tok[1] = "#" /\ Len(tok) > 1
IsTextToken(tok) == ~IsTagToken(tok)

\* What follows the marker, the meeting bracket and the priority of a line
AfterBracket(rest) ==
    IF MeetingBracket(rest) = None THEN rest ELSE TrimStart(MeetingBracket(rest)[1].after)

Body(line) == StripPriority(AfterBracket(Drop(TrimStart(line), Len(OpenMarker))))

EndsWith(s, t) == Len(s) >= Len(t) /\ Drop(s, Len(s) - Len(t)) = t

ShipLine == OpenMarker \o <<"S", "h", "i", "p", " ", "#", "w", "o", "r", "k", " ", "t", "h", "e", " ", "r", "e", "l", "e", "a", "s", "e">>
ShipEncoded == OpenMarker \o <<"S", "h", "i", "p", " ", "t", "h", "e", " ", "r", "e", "l", "e", "a", "s", "e", " ", "#", "w", "o", "r", "k">>

C16_TagsAreTheHashTokens ==
    /\ codec.entry # None =>
          /\ codec.entry[1].tags = Map(SelectSeq(SplitWhitespace(Body(codec.line)), IsTagToken), Tail)
          /\ codec.entry[1].text =
                Join(SelectSeq(SplitWhitespace(Body(codec.line)), IsTextToken), <<" ">>)
    /\ codec.encoded # None =>
          /\ EndsWith(codec.encoded[1], TagSuffix(codec.entry[1].tags))
          /\ codec.line = ShipLine => codec.encoded[1] = ShipEncoded

(***************************************************************************)
(* C19.  An entry created by addMeeting carries no priority: whatever the  *)
(* title, the entry added decodes to no priority, the time and the         *)
(* duration given, the title as its text, and the tags and notes given.    *)
(***************************************************************************)
C19_MeetingHasNoPriority ==
    Succeeded("addMeeting") =>
        LET now == Decoded(files, last.from)
        IN /\ now[Len(now)].priority = None
           /\ now[Len(now)].meeting_time = last.args.time
           /\ now[Len(now)].meeting_duration_min = last.args.duration
           /\ now[Len(now)].text = last.args.text
           /\ now[Len(now)].tags = last.args.tags
           /\ now[Len(now)].notes = last.args.notes

(***************************************************************************)
(* C20.  A meeting bracket whose first token is no HH:MM time leaves the   *)
(* meeting unset, the time and the duration both none, also when a well    *)
(* formed duration follows; no entry decodes to a duration without a time. *)
(***************************************************************************)
BracketParts(line) == SplitWhitespace(MeetingBracket(Drop(TrimStart(line), Len(OpenMarker)))[1].spec)

HasBadTime(line) ==
    /\ MeetingBracket(Drop(TrimStart(line), Len(OpenMarker))) # None
    /\ \/ BracketParts(line) = <<>>
       \/ ParseTime(BracketParts(line)[1]) = None

C20_BadTimeLeavesNoMeeting ==
    codec.entry # None =>
        /\ HasBadTime(codec.line) =>
              codec.entry[1].meeting_time = None /\ codec.entry[1].meeting_duration_min = None
        /\ codec.entry[1].meeting_duration_min # None => codec.entry[1].meeting_time # None

(***************************************************************************)
(* C17.  Updates are lost under concurrency.  When two invocations on the  *)
(* same date both succeed, and one of them read the day file before the    *)
(* other wrote it and wrote it after, the day file holds what the later    *)
(* writer wrote and the entry the other added is not in it: two concurrent *)
(* additions can leave a single new entry.                                 *)
(***************************************************************************)
Reads(p, date) == {n \in 1..Len(log) : log[n].op = "read" /\ log[n].id = p /\ log[n].from = date}
Writes(p, date) == {n \in 1..Len(log) : log[n].op = "write" /\ log[n].id = p /\ log[n].from = date}

Least(S) == CHOOSE n \in S : \A m \in S : n <= m

Finished == \A p \in DOMAIN procs : procs[p].pc = "done" /\ procs[p].result = "Ok"

\* q wrote the date between the read and the write of it by p
WroteBetween(q, p, date) ==
    /\ Reads(p, date) # {} /\ Writes(p, date) # {} /\ Writes(q, date) # {}
    /\ Least(Reads(p, date)) < Least(Writes(q, date))
    /\ Least(Writes(q, date)) < Least(Writes(p, date))

HasText(bullets, text) == \E v \in 1..Len(bullets) : bullets[v].text = text

C17_LaterWriterOverwrites ==
    \A p, q \in DOMAIN procs :
        (Finished /\ procs[q].op = "add" /\ WroteBetween(q, p, procs[q].from)) =>
            /\ LinesOf(files, procs[q].from) = procs[p].lines
            /\ ~HasText(Decoded(files, procs[q].from), procs[q].text)

C17_Witness ==
    /\ procs # <<>>
    /\ Finished
    /\ \A p \in DOMAIN procs : procs[p].op = "add"
    /\ WroteBetween(2, 1, "d1")
    /\ Len(Decoded(files, "d1")) = Len(Decoded(initial, "d1")) + 1
    /\ HasText(Decoded(files, "d1"), procs[1].text)

(***************************************************************************)
(* C18.  migrateOpen works on the source as it read it.  The destination   *)
(* gains from it the open entries of that one read and nothing else, one   *)
(* entry for each when it is done; an entry that a concurrent invocation   *)
(* appends to the source after that read is never added to the             *)
(* destination.                                                            *)
(***************************************************************************)
\* The entry that line decodes to
EntryOf(line) == Decoded(FilesOf(FileOf(<<line>>), NoFile), "d1")[1]

C18_MigrateOpenSnapshot ==
    \A p \in DOMAIN procs :
        (procs[p].op = "migrateOpen" /\ procs[p].pc # "start") =>
            LET open == SelectSeq(parse_bullets(procs[p].read), IsOpen)
                n    == Len(procs[p].added)
            IN /\ LinesOf(files, procs[p].to) = LinesOf(initial, procs[p].to) \o procs[p].added
               /\ n <= Len(open)
               /\ procs[p].pc = "done" => n = Len(open)
               /\ \A j \in 1..n :
                     Carried(EntryOf(procs[p].added[j])) = Carried(open[Len(open) + 1 - j])
               /\ \A q \in DOMAIN procs :
                     (/\ procs[q].op = "add"
                      /\ \A w \in Writes(q, procs[p].from) :
                            Least(Reads(p, procs[p].from)) < w) =>
                        ~HasText(Decoded(files, procs[p].to), procs[q].text)

C18_Witness ==
    /\ procs # <<>>
    /\ procs[1].op = "migrateOpen"
    /\ procs[1].pc = "done"
    /\ procs[1].added # <<>>
    /\ Writes(2, "d1") # {}
    /\ Least(Reads(1, "d1")) < Least(Writes(2, "d1"))
    /\ Least(Writes(2, "d1")) < Least(Writes(1, "d1"))
    /\ ~HasText(Decoded(files, "d2"), procs[2].text)

(***************************************************************************)
(* C21.  notifyUpcoming(w) notifies an entry of today's file exactly when  *)
(* the entry has a meeting time, the time from now to its start is at      *)
(* least zero and at most w minutes, and its key is not among the keys     *)
(* loaded at the start of the call.  The keys the call adds to the state   *)
(* file are keys of entries it notified; when it notifies none the state   *)
(* file is as it was; the call does not fail; the day files are never      *)
(* modified.                                                               *)
(***************************************************************************)
\* The keys the last call loaded
LoadedBefore ==
    IF last.failed = <<"read", StateFile>> THEN {} ELSE KeysOf(before)

\* The seconds from the clock of the last call to the start of e
SecondsUntilStart(e) == 60 * e.meeting_time[1] - last.args.time[1]

\* The deliveries of the last call
DeliveredNow == {i \in 1..Len(delivered) : delivered[i].call = Len(log)}

NotifiedNow(e) == \E i \in DeliveredNow : delivered[i].what.line = e.line_index

C21_NotifiesExactlyTheDue ==
    (last.op = "notify" /\ last.failed # <<"read", Today>>) =>
        /\ last.result = "Ok"
        /\ \A v \in 1..Len(Decoded(before, Today)) :
              LET e == Decoded(before, Today)[v]
              IN NotifiedNow(e) <=>
                    /\ e.meeting_time # None
                    /\ SecondsUntilStart(e) >= 0
                    /\ SecondsUntilStart(e) <= 60 * last.id
                    /\ StartKey(Today, e.meeting_time[1]) \notin LoadedBefore
        /\ \A k \in KeysOf(files) \ KeysOf(before) :
              \E i \in DeliveredNow : StartKey(Today, delivered[i].what.at) = k
        /\ DeliveredNow = {} => files[StateFile] = before[StateFile]
        /\ \A d \in Dates : files[d] = before[d]

(***************************************************************************)
(* C22.  One pass of migrateOpen removes from the source the lines of the  *)
(* entries that were open when it was read, each removal at the index      *)
(* recorded for the entry, last entry first: the source is left with its   *)
(* other lines, those of completed entries, note lines and opaque lines,   *)
(* none removed and in their order, however many open entries there were   *)
(* and wherever they stood.                                                *)
(***************************************************************************)
IsNotOpenLine(line) == ~IsOpenLine(line)

C22_RemovalsHitTheOpenLines ==
    Succeeded("migrateOpen") =>
        LinesOf(files, last.from) = SelectSeq(LinesOf(before, last.from), IsNotOpenLine)

C22_Witness ==
    /\ Succeeded("migrateOpen")
    /\ Len(LinesOf(before, last.from)) = 3
    /\ IsOpenLine(LinesOf(before, last.from)[1])
    /\ IsOpenLine(LinesOf(before, last.from)[2])
    /\ IsNoteLine(LinesOf(before, last.from)[3])
    /\ LinesOf(files, last.from) = <<LinesOf(before, last.from)[3]>>

(***************************************************************************)
(* C23.  migrateOpen appends the entries it moves in the reverse of their  *)
(* order in the source: the entries the destination gained are, from the   *)
(* first gained to the last, the lines written for the open entries of the *)
(* source from the last to the first, so of two open entries the later     *)
(* one of the source has the smaller visible index in the destination.     *)
(***************************************************************************)
OpenRead == SelectSeq(Decoded(before, last.from), IsOpen)
Gained == EntriesAfter(Decoded(files, last.to), Len(Decoded(before, last.to)))
\* The line migration writes for the entry b of the source
WrittenFor(mt) == AddedLines(<<>>, mt.full_text, mt.priority, mt.tags, <<>>)[1]
MovedLine(b) == WrittenFor(MigratedText(LinesOf(before, last.from)[b.line_index]))
NewIndex(v) == Len(Decoded(before, last.to)) + Len(OpenRead) + 1 - v

C23_DestinationGetsReverseOrder ==
    Succeeded("migrateOpen") =>
        /\ Len(Gained) = Len(OpenRead)
        /\ \A v \in 1..Len(OpenRead) :
              /\ NewIndex(v) \in 1..Len(Decoded(files, last.to))
              /\ LinesOf(files, last.to)[Decoded(files, last.to)[NewIndex(v)].line_index]
                     = MovedLine(OpenRead[v])
        /\ \A a, b \in 1..Len(OpenRead) : a < b => NewIndex(b) < NewIndex(a)

C23_Witness ==
    /\ Succeeded("migrateOpen")
    /\ Len(OpenRead) = 2
    /\ MovedLine(OpenRead[1]) # MovedLine(OpenRead[2])
    /\ Len(Decoded(before, last.to)) = 1
    /\ LinesOf(files, last.to)[Decoded(files, last.to)[2].line_index] = MovedLine(OpenRead[2])
    /\ LinesOf(files, last.to)[Decoded(files, last.to)[3].line_index] = MovedLine(OpenRead[1])

(***************************************************************************)
(* C24.  A migration loses no entry: whatever the invocation did before it *)
(* ended, at the end of a success or after the failure of any read or      *)
(* write that follows the read of the source, every entry that was open in *)
(* the source when it was read is an open entry of the source file or an   *)
(* entry the destination file gained, counted with its repetitions.  A     *)
(* failure that has no effect leaves the files as they are between two     *)
(* storage operations, so the states after a failure are the intermediate  *)
(* points of the invocation too.                                           *)
(***************************************************************************)
OpenLinesOf(fs, date) == SelectSeq(LinesOf(fs, date), IsOpenLine)
MovedLinesOf(fs, date) ==
    [i \in 1..Len(OpenLinesOf(fs, date)) |-> WrittenFor(MigratedText(OpenLinesOf(fs, date)[i]))]
Count(s, x) == Cardinality({i \in 1..Len(s) : s[i] = x})
GainedCount(line) ==
    IF Count(LinesOf(files, last.to), line) > Count(LinesOf(before, last.to), line)
    THEN Count(LinesOf(files, last.to), line) - Count(LinesOf(before, last.to), line)
    ELSE 0

C24_MigrationLosesNoEntry ==
    (last.op \in Migrations /\ SourceRead) =>
        \A i \in 1..Len(MovedLinesOf(before, last.from)) :
            LET line == MovedLinesOf(before, last.from)[i]
            IN Count(MovedLinesOf(before, last.from), line)
                   <= Count(MovedLinesOf(files, last.from), line) + GainedCount(line)

====
